---------------------------- MODULE Spec2Model ----------------------------
(***************************************************************************)
(* Model of src/app.py: the financial dashboard's grid scan                *)
(* (load_data_from_upload), keyword classifier (classify_line_item),       *)
(* demonstration dataset (create_sample_data), headline metrics / KPI      *)
(* gauge, and the session state machine that one script run of main()      *)
(* drives (upload, Load Demo, Reset, category filter).                     *)
(*                                                                         *)
(* Text is a sequence of one-character strings, so that strip, lower,      *)
(* isdigit, len and the substring test are computed as Python computes     *)
(* them.  A float is a record [k, n]: k = "fin" with the integer n, or     *)
(* "pinf", "ninf", "nan" (n = 0) for the non-finite values float() can     *)
(* return.  Amounts are whole numbers in the model.                        *)
(***************************************************************************)
EXTENDS Integers, Sequences, FiniteSets, TLC

VARIABLES
    disk,               \* the spreadsheet the user has at hand (an input)
    uploaded_file,      \* value of the st.file_uploader widget
    df_data,            \* st.session_state.df_data
    selected_category,  \* value of the "Filter by Category" selectbox
    categories,         \* options the selectbox was rendered with
    df_filtered,        \* rows shown by the pie chart, bar chart and table
    dashboard,          \* the last run computed and rendered the metrics
    metrics,            \* total_revenue, total_expenses, net_income, profit_margin
    kpi_margin,         \* profit_margin shown by create_kpi_chart
    demo_button,        \* the last run rendered the "Load Demo Data" button
    reset_button,       \* the last run rendered the "Reset Dashboard" button
    rerun,              \* the last run ended in st.rerun()
    ran_upload,         \* the last run executed the "uploaded_file is not None" branch
    load_result,        \* what load_data_from_upload returned in the last run
    error_shown,        \* load_data_from_upload called st.error in the last run
    description,        \* argument of a direct classify_line_item call
    category            \* its result (NoText before the call)

vars == <<disk, uploaded_file, df_data, selected_category, categories, df_filtered,
          dashboard, metrics, kpi_margin, demo_button, reset_button, rerun,
          ran_upload, load_result, error_shown, description, category>>

-----------------------------------------------------------------------------
(* Bounds *)

MaxRows == 2
MaxWords == 2

-----------------------------------------------------------------------------
(* Python str operations on character sequences *)

UpperCase == <<"A","B","C","D","E","F","G","H","I","J","K","L","M",
               "N","O","P","Q","R","S","T","U","V","W","X","Y","Z">>
LowerCase == <<"a","b","c","d","e","f","g","h","i","j","k","l","m",
               "n","o","p","q","r","s","t","u","v","w","x","y","z">>
DigitChars == <<"0","1","2","3","4","5","6","7","8","9">>

Range(s) == { s[i] : i \in 1..Len(s) }

LowerChar(c) ==
    IF \E i \in 1..Len(UpperCase) : UpperCase[i] = c
    THEN LowerCase[CHOOSE i \in 1..Len(UpperCase) : UpperCase[i] = c]
    ELSE c

\* str.lower()
lower(s) == [i \in 1..Len(s) |-> LowerChar(s[i])]

\* str.strip(): drops leading and trailing whitespace
strip(s) ==
    LET ink == { i \in 1..Len(s) : s[i] # " " }
    IN IF ink = {} THEN <<>>
       ELSE SubSeq(s, CHOOSE i \in ink : \A j \in ink : i <= j,
                      CHOOSE i \in ink : \A j \in ink : i >= j)

\* str.isdigit(): non-empty and every character a digit
isdigit(s) == Len(s) > 0 /\ \A i \in 1..Len(s) : s[i] \in Range(DigitChars)

\* "word in text": word occurs as a contiguous substring
Contains(text, word) ==
    \E i \in 0..(Len(text) - Len(word)) : SubSeq(text, i + 1, i + Len(word)) = word

\* any(word in text for word in words)
AnyWordIn(words, text) == \E k \in 1..Len(words) : Contains(text, words[k])

-----------------------------------------------------------------------------
(* classify_line_item *)

RevenueWords == << <<"r","e","v","e","n","u","e">>, <<"i","n","c","o","m","e">>,
                   <<"s","a","l","e","s">>, <<"t","u","r","n","o","v","e","r">> >>
ExpensesWords == << <<"c","o","s","t">>, <<"e","x","p","e","n","s","e">>,
                    <<"e","x","p","e","n","d","i","t","u","r","e">>,
                    <<"o","p","e","r","a","t","i","n","g">>, <<"a","d","m","i","n">>,
                    <<"s","e","l","l","i","n","g">> >>
ProfitLossWords == << <<"p","r","o","f","i","t">>, <<"l","o","s","s">>, <<"n","e","t">>,
                      <<"e","b","i","t","d","a">>, <<"e","b","i","t">> >>
TaxInterestWords == << <<"t","a","x">>, <<"i","n","t","e","r","e","s","t">>,
                       <<"f","i","n","a","n","c","e">> >>
DepreciationWords == << <<"d","e","p","r","e","c","i","a","t","i","o","n">>,
                        <<"a","m","o","r","t","i","z","a","t","i","o","n">> >>

\* A plausible slip: the Profit/Loss test placed before the Revenue test.
classify_ProfitLossFirst(d) ==
    LET description_lower == lower(d)
    IN IF AnyWordIn(ProfitLossWords, description_lower) THEN "Profit/Loss"
       ELSE IF AnyWordIn(RevenueWords, description_lower) THEN "Revenue"
       ELSE IF AnyWordIn(ExpensesWords, description_lower) THEN "Expenses"
       ELSE IF AnyWordIn(TaxInterestWords, description_lower) THEN "Tax & Interest"
       ELSE IF AnyWordIn(DepreciationWords, description_lower) THEN "Depreciation"
       ELSE "Other"

classify_line_item(d) ==
    LET description_lower == lower(d)
    IN IF AnyWordIn(RevenueWords, description_lower) THEN "Revenue"
       ELSE IF AnyWordIn(ExpensesWords, description_lower) THEN "Expenses"
       ELSE IF AnyWordIn(ProfitLossWords, description_lower) THEN "Profit/Loss"
       ELSE IF AnyWordIn(TaxInterestWords, description_lower) THEN "Tax & Interest"
       ELSE IF AnyWordIn(DepreciationWords, description_lower) THEN "Depreciation"
       ELSE "Other"

-----------------------------------------------------------------------------
(* Python float values and the arithmetic the metrics use *)

Fin(n) == [k |-> "fin", n |-> n]
PInf == [k |-> "pinf", n |-> 0]
NInf == [k |-> "ninf", n |-> 0]
NaN == [k |-> "nan", n |-> 0]

IsFinite(x) == x.k = "fin"

\* abs(x)
fabs(x) ==
    CASE x.k = "fin" -> Fin(IF x.n < 0 THEN -x.n ELSE x.n)
      [] x.k = "nan" -> NaN
      [] OTHER -> PInf

\* -x
fneg(x) ==
    CASE x.k = "fin" -> Fin(-x.n)
      [] x.k = "pinf" -> NInf
      [] x.k = "ninf" -> PInf
      [] OTHER -> NaN

\* x + y
fadd(x, y) ==
    CASE x.k = "nan" \/ y.k = "nan" -> NaN
      [] x.k = "fin" /\ y.k = "fin" -> Fin(x.n + y.n)
      [] x.k = "fin" -> y
      [] y.k = "fin" -> x
      [] x.k = y.k -> x
      [] OTHER -> NaN

\* x - y
fsub(x, y) == fadd(x, fneg(y))

\* x > 0 (False for NaN)
fgt0(x) == x.k = "pinf" \/ (x.k = "fin" /\ x.n > 0)

\* Quotients are kept exact: k = "fin" stands for the fraction num / den, so that
\* two quotients are the same number exactly when they are the same record.
RECURSIVE GCD(_, _)
GCD(a, b) == IF b = 0 THEN a ELSE GCD(b, a % b)

Abs(n) == IF n < 0 THEN -n ELSE n

\* num / den for den # 0, in lowest terms with a positive denominator
Ratio(num, den) ==
    LET g == GCD(Abs(num), Abs(den))
        s == IF den < 0 THEN -1 ELSE 1
    IN [k |-> "fin", num |-> s * (num \div g), den |-> s * (den \div g)]
RNaN == [k |-> "nan", num |-> 0, den |-> 1]
RPInf == [k |-> "pinf", num |-> 0, den |-> 1]
RNInf == [k |-> "ninf", num |-> 0, den |-> 1]

RZeroDiv == [k |-> "zerodiv", num |-> 0, den |-> 0]   \* a division by zero took place

\* x / y * 100
fdiv100(x, y) ==
    CASE x.k = "nan" \/ y.k = "nan" -> RNaN
      [] y.k = "fin" /\ y.n = 0 -> RZeroDiv
      [] y.k \in {"pinf", "ninf"} -> IF x.k = "fin" THEN Ratio(0, 1) ELSE RNaN
      [] x.k = "fin" -> Ratio(x.n * 100, y.n)
      [] (x.k = "pinf") = (y.n > 0) -> RPInf
      [] OTHER -> RNInf

-----------------------------------------------------------------------------
(* Spreadsheet cells as pd.read_excel(header=None) delivers them *)

NoText == <<>>
NaNCell == [t |-> "nan", n |-> 0, s |-> NoText]      \* empty cell
NumCell(n) == [t |-> "num", n |-> n, s |-> NoText]   \* numeric cell
StrCell(s) == [t |-> "str", n |-> 0, s |-> s]        \* text cell

\* pd.notna
notna(c) == c.t # "nan"

RECURSIVE NatToStr(_)
NatToStr(n) ==
    IF n < 10 THEN <<DigitChars[n + 1]>>
    ELSE Append(NatToStr(n \div 10), DigitChars[(n % 10) + 1])

\* str(cell)
str(c) ==
    IF c.t = "str" THEN c.s
    ELSE IF c.n < 0 THEN <<"-">> \o NatToStr(-c.n) ELSE NatToStr(c.n)

DigitValue(ch) == (CHOOSE i \in 1..Len(DigitChars) : DigitChars[i] = ch) - 1

RECURSIVE DigitsValue(_)
DigitsValue(s) ==
    IF s = <<>> THEN 0
    ELSE 10 * DigitsValue(SubSeq(s, 1, Len(s) - 1)) + DigitValue(s[Len(s)])

\* float(cell): [ok |-> FALSE] stands for ValueError.  Text is stripped, may
\* carry a sign, and is a run of digits or one of inf / infinity / nan in any case.
float(c) ==
    IF c.t = "num" THEN [ok |-> TRUE, v |-> Fin(c.n)]
    ELSE
      LET txt == strip(c.s)
          signed == txt # <<>> /\ txt[1] \in {"+", "-"}
          neg == signed /\ txt[1] = "-"
          body == lower(IF signed THEN SubSeq(txt, 2, Len(txt)) ELSE txt)
      IN IF isdigit(body)
           THEN [ok |-> TRUE,
                 v |-> Fin(IF neg THEN -DigitsValue(body) ELSE DigitsValue(body))]
         ELSE IF body \in { <<"i","n","f">>, <<"i","n","f","i","n","i","t","y">> }
           THEN [ok |-> TRUE, v |-> IF neg THEN NInf ELSE PInf]
         ELSE IF body = <<"n","a","n">>
           THEN [ok |-> TRUE, v |-> NaN]
         ELSE [ok |-> FALSE, v |-> NaN]

-----------------------------------------------------------------------------
(* DataFrames *)

None == [isNone |-> TRUE, rows |-> <<>>]
DataFrame(rows) == [isNone |-> FALSE, rows |-> rows]

\* df.empty
empty(df) == df.rows = <<>>

Item(d, v, c, a) == [Description |-> d, Value |-> v, Category |-> c, Abs_Value |-> a]

-----------------------------------------------------------------------------
(* load_data_from_upload *)

HeaderStrings ==
    { <<"D","E","S","C","R","I","P","T","I","O","N">>,
      <<"U","N","I","T","E","C","H"," ","-"," ","T","O","S","L"," ","K","S","A">>,
      <<"I","N","C","O","M","E"," ","S","T","A","T","E","M","E","N","T","_","A","S",
        " ","O","F"," ","J","U","L","Y"," ","2","0","2","5">> }

ValueColumn == 6    \* row.iloc[5], counted from 1
MinDescLen == 2     \* len(description) > 2

\* The filter of lines 161-164
DescriptionOk(d) ==
    /\ d # <<>>
    /\ d \notin HeaderStrings
    /\ ~isdigit(d)
    /\ Len(d) > MinDescLen

\* A plausible slip: rows whose value is exactly zero are dropped as placeholders.
ScanRow_SkipZero(financial_data, row) ==
    IF Len(row) > ValueColumn - 1 /\ notna(row[1]) /\ notna(row[ValueColumn])
    THEN LET d == strip(str(row[1]))
             value == float(row[ValueColumn])
         IN IF value.ok /\ value.v # Fin(0) /\ DescriptionOk(d)
            THEN Append(financial_data,
                        Item(d, value.v, classify_line_item(d), fabs(value.v)))
            ELSE financial_data
    ELSE financial_data

\* One iteration of the loop over df_raw.iterrows(): the list after the row
ScanRow(financial_data, row) ==
    IF Len(row) > ValueColumn - 1 /\ notna(row[1]) /\ notna(row[ValueColumn])
    THEN LET d == strip(str(row[1]))
             value == float(row[ValueColumn])
         IN IF value.ok /\ DescriptionOk(d)
            THEN Append(financial_data,
                        Item(d, value.v, classify_line_item(d), fabs(value.v)))
            ELSE financial_data
    ELSE financial_data

RECURSIVE ScanRows(_, _, _)

\* A plausible slip: break instead of continue, the scan stops at the first row
\* that is not taken.
RECURSIVE ScanRows_Break(_, _, _)
ScanRows_Break(rows, i, financial_data) ==
    IF i > Len(rows) THEN financial_data
    ELSE IF ScanRow(financial_data, rows[i]) = financial_data THEN financial_data
    ELSE ScanRows_Break(rows, i + 1, ScanRow(financial_data, rows[i]))

ScanRows(rows, i, financial_data) ==
    IF i > Len(rows) THEN financial_data
    ELSE ScanRows(rows, i + 1, ScanRow(financial_data, rows[i]))

\* A plausible slip: an empty DataFrame rather than None when no row is valid.
load_data_from_upload_EmptyFrame(file) ==
    IF file.kind = "unreadable"
    THEN [ret |-> None, error |-> TRUE]
    ELSE [ret |-> DataFrame(ScanRows(file.rows, 1, <<>>)), error |-> FALSE]

\* The whole function: what it returns and whether it called st.error
load_data_from_upload(file) ==
    IF file.kind = "unreadable"
    THEN [ret |-> None, error |-> TRUE]
    ELSE LET financial_data == ScanRows(file.rows, 1, <<>>)
         IN IF financial_data # <<>>
            THEN [ret |-> DataFrame(financial_data), error |-> FALSE]
            ELSE [ret |-> None, error |-> FALSE]

-----------------------------------------------------------------------------
(* create_sample_data: amounts in thousands of SAR, rounded *)

SampleDescriptions ==
    << <<"T","o","t","a","l"," ","R","e","v","e","n","u","e">>,
       <<"R","e","v","e","n","u","e"," ","(","O","t","h","e","r"," ","I","n","c","o","m","e",")">>,
       <<"C","o","s","t"," ","o","f"," ","G","o","o","d","s"," ","S","o","l","d">>,
       <<"O","p","e","r","a","t","i","n","g"," ","E","x","p","e","n","s","e","s">>,
       <<"A","d","m","i","n","i","s","t","r","a","t","i","v","e"," ","E","x","p","e","n","s","e","s">>,
       <<"D","e","p","r","e","c","i","a","t","i","o","n">>,
       <<"I","n","t","e","r","e","s","t"," ","E","x","p","e","n","s","e">>,
       <<"T","a","x"," ","E","x","p","e","n","s","e">>,
       <<"N","e","t"," ","I","n","c","o","m","e">> >>
SampleValues == <<175596, -91, -162827, -8500, -2300, -1200, -800, -1500, 2250>>
SampleCategories == <<"Revenue", "Revenue", "Expenses", "Expenses", "Expenses",
                      "Depreciation", "Tax & Interest", "Tax & Interest", "Profit/Loss">>
SampleAbsValues == <<175596, 91, 162827, 8500, 2300, 1200, 800, 1500, 2250>>

create_sample_data ==
    DataFrame([i \in 1..Len(SampleDescriptions) |->
                 Item(SampleDescriptions[i], Fin(SampleValues[i]),
                      SampleCategories[i], Fin(SampleAbsValues[i]))])

-----------------------------------------------------------------------------
(* Column selections and sums *)

\* df[df['Category'] == c]
CategoryRows(rows, c) == SelectSeq(rows, LAMBDA it : it.Category = c)

\* Series.sum(): skips NaN entries, 0 for an empty selection
RECURSIVE SumValue(_)
SumValue(rows) ==
    IF rows = <<>> THEN Fin(0)
    ELSE LET rest == SumValue(Tail(rows))
         IN IF Head(rows).Value.k = "nan" THEN rest ELSE fadd(Head(rows).Value, rest)

\* list(df['Category'].unique()): distinct categories in order of first appearance
RECURSIVE unique(_)
unique(rows) ==
    IF rows = <<>> THEN <<>>
    ELSE LET before == unique(SubSeq(rows, 1, Len(rows) - 1))
             c == rows[Len(rows)].Category
         IN IF c \in Range(before) THEN before ELSE Append(before, c)

\* A plausible slip: the guard written >= 0, which divides by a zero revenue.
Margin_GuardGE(net_income, total_revenue) ==
    IF fgt0(total_revenue) \/ total_revenue = Fin(0)
    THEN fdiv100(net_income, total_revenue)
    ELSE Ratio(0, 1)

\* profit_margin as lines 342 and 480 compute it
Margin(net_income, total_revenue) ==
    IF fgt0(total_revenue) THEN fdiv100(net_income, total_revenue) ELSE Ratio(0, 1)

\* "Calculate key metrics" in main, for the rows it is given
KeyMetrics(rows) ==
    LET total_revenue == SumValue(CategoryRows(rows, "Revenue"))
        total_expenses == fabs(SumValue(CategoryRows(rows, "Expenses")))
        net_income == fsub(total_revenue, total_expenses)
    IN [total_revenue |-> total_revenue,
        total_expenses |-> total_expenses,
        net_income |-> net_income,
        profit_margin |-> Margin(net_income, total_revenue)]

\* The gauge value of create_kpi_chart
create_kpi_chart(rows) ==
    LET total_revenue == SumValue(CategoryRows(rows, "Revenue"))
        total_expenses == fabs(SumValue(CategoryRows(rows, "Expenses")))
        net_income == fsub(total_revenue, total_expenses)
    IN Margin(net_income, total_revenue)

NoMetrics == [total_revenue |-> Fin(0), total_expenses |-> Fin(0),
              net_income |-> Fin(0), profit_margin |-> Ratio(0, 1)]

-----------------------------------------------------------------------------
(* main: one script run *)

NoFile == [kind |-> "none", rows |-> <<>>]
Unreadable == [kind |-> "unreadable", rows |-> <<>>]
Grid(rows) == [kind |-> "grid", rows |-> rows]

\* A plausible slip: the metrics computed from the filtered rows.
MetricRows_Filtered(df, filtered) == filtered.rows

\* The rows main hands to the metric computation: df, not df_filtered
MetricRows(df, filtered) == df.rows

\* A plausible slip: the load result stored without the fallback.
ProcessUpload_NoFallback(loaded) == loaded.ret

\* The dataset the upload branch stores (lines 402-422)
ProcessUpload(loaded) ==
    IF ~loaded.ret.isNone /\ ~empty(loaded.ret) THEN loaded.ret ELSE create_sample_data

\* The dataset in the session after a click on Reset (line 473)
ResetValue == None

\* What the run holds in place of a load result when nothing is uploaded
NotLoaded == [ret |-> None, error |-> FALSE]

\* One run of main for the widget values the browser sends: the uploaded file,
\* the selectbox value, and which button was clicked.  The selectbox keeps its
\* value while it is rendered with the same options and shows 'All' otherwise.
\* (\E x \in {e} binds the run's local variable x to the value of e.)
\* The chart checkboxes stay at their default, so every chart is drawn.
main(file, widget_category, click_demo, click_reset) ==
    LET has_upload == file.kind # "none"
        show_demo_button == ~has_upload /\ df_data.isNone
        demo_rerun == show_demo_button /\ click_demo
    IN
    \E loaded \in { IF has_upload THEN load_data_from_upload(file) ELSE NotLoaded } :
    \E df \in { IF has_upload THEN ProcessUpload(loaded)
                ELSE IF demo_rerun THEN create_sample_data
                ELSE df_data } :
    \E options \in { <<"All">> \o unique(df.rows) } :
    \E selected \in { IF options = categories THEN widget_category ELSE "All" } :
    \E filtered \in { IF selected # "All"
                      THEN DataFrame(CategoryRows(df.rows, selected))
                      ELSE df } :
    LET show == ~demo_rerun /\ ~df.isNone /\ ~empty(df)
        reset_rerun == show /\ click_reset
        rendered == show /\ ~reset_rerun
    IN /\ uploaded_file' = file
       /\ ran_upload' = has_upload
       /\ load_result' = loaded.ret
       /\ error_shown' = loaded.error
       /\ demo_button' = show_demo_button
       /\ df_data' = IF reset_rerun THEN ResetValue ELSE df
       /\ reset_button' = show
       /\ categories' = IF show THEN options ELSE <<>>
       /\ selected_category' = IF show THEN selected ELSE "All"
       /\ df_filtered' = IF show THEN filtered ELSE None
       /\ dashboard' = rendered
       /\ metrics' = IF rendered THEN KeyMetrics(MetricRows(df, filtered)) ELSE NoMetrics
       /\ kpi_margin' = IF rendered THEN create_kpi_chart(df.rows) ELSE Ratio(0, 1)
       /\ rerun' = (demo_rerun \/ reset_rerun)
       /\ UNCHANGED <<disk, description, category>>

-----------------------------------------------------------------------------
(* Inputs *)

DescCells ==
    { NaNCell,
      StrCell(<<" ","N","e","t"," ","R","e","v","e","n","u","e"," ">>),
      StrCell(<<"I","n","t","e","r","e","s","t"," ","E","x","p","e","n","s","e">>),
      StrCell(<<"D","E","S","C","R","I","P","T","I","O","N">>),
      NumCell(123),
      StrCell(<<"a","b">>) }

ValueCells ==
    { NaNCell, NumCell(0), NumCell(-2), NumCell(3),
      StrCell(<<"i","n","f">>), StrCell(<<"-","i","n","f">>),
      StrCell(<<"N","A","N">>), StrCell(<<"a","b","c">>) }

\* A sheet laid out as expected: description in column A, value in column F
WideRow(d, v) == <<d, NaNCell, NaNCell, NaNCell, NaNCell, v>>
\* A sheet with the value in column B
NarrowRow(d, v) == <<d, v>>

WideRows == { WideRow(d, v) : d \in DescCells, v \in ValueCells }
NarrowRows == { NarrowRow(d, NumCell(3)) : d \in DescCells }

SeqsUpTo(S, n) == UNION { [1..m -> S] : m \in 0..n }

Grids == SeqsUpTo(WideRows, MaxRows) \cup SeqsUpTo(NarrowRows, MaxRows)

\* The spreadsheets tried in whole sessions
SessionRows ==
    { WideRow(StrCell(<<"N","e","t"," ","R","e","v","e","n","u","e">>), NumCell(3)),
      WideRow(StrCell(<<"I","n","t","e","r","e","s","t"," ","E","x","p","e","n","s","e">>),
              NumCell(-2)),
      WideRow(StrCell(<<" "," ","T","a","x"," ">>), NumCell(0)),
      WideRow(StrCell(<<"D","E","S","C","R","I","P","T","I","O","N">>), NumCell(3)) }

SessionGrids == SeqsUpTo(SessionRows, MaxRows)

-----------------------------------------------------------------------------
(* The session: every user interaction triggers one run of main *)

\* The state after the first run of a new session: nothing uploaded, no data
FirstRun ==
    /\ uploaded_file = NoFile
    /\ df_data = None
    /\ selected_category = "All"
    /\ categories = <<>>
    /\ df_filtered = None
    /\ dashboard = FALSE
    /\ metrics = NoMetrics
    /\ kpi_margin = Ratio(0, 1)
    /\ demo_button = TRUE
    /\ reset_button = FALSE
    /\ rerun = FALSE
    /\ ran_upload = FALSE
    /\ load_result = None
    /\ error_shown = FALSE

Init ==
    /\ disk \in SessionGrids
    /\ FirstRun
    /\ description = NoText
    /\ category = ""

\* The user drops the spreadsheet into the uploader
UploadFile ==
    /\ ~rerun
    /\ main(Grid(disk), selected_category, FALSE, FALSE)

\* The user drops a file that pd.read_excel cannot read
UploadUnreadable ==
    /\ ~rerun
    /\ main(Unreadable, selected_category, FALSE, FALSE)

\* The user clears the uploader
RemoveFile ==
    /\ ~rerun
    /\ uploaded_file.kind # "none"
    /\ main(NoFile, selected_category, FALSE, FALSE)

\* The user clicks "Load Demo Data"
ClickLoadDemo ==
    /\ ~rerun
    /\ demo_button
    /\ main(uploaded_file, selected_category, TRUE, FALSE)

\* The user clicks "Reset Dashboard"
ClickReset ==
    /\ ~rerun
    /\ reset_button
    /\ main(uploaded_file, selected_category, FALSE, TRUE)

\* The user picks an entry of "Filter by Category"
SelectCategory ==
    /\ ~rerun
    /\ reset_button
    /\ \E c \in Range(categories) :
         /\ c # selected_category
         /\ main(uploaded_file, c, FALSE, FALSE)

\* st.rerun(): the script runs again at once, with no click
Rerun ==
    /\ rerun
    /\ main(uploaded_file, selected_category, FALSE, FALSE)

Next ==
    \/ UploadFile
    \/ UploadUnreadable
    \/ RemoveFile
    \/ ClickLoadDemo
    \/ ClickReset
    \/ SelectCategory
    \/ Rerun

Spec == Init /\ [][Next]_vars

-----------------------------------------------------------------------------
(* The first upload of any spreadsheet *)

InitScan ==
    /\ disk \in Grids
    /\ FirstRun
    /\ description = NoText
    /\ category = ""

NextScan == UploadFile

SpecScan == InitScan /\ [][NextScan]_vars


-----------------------------------------------------------------------------
(* classify_line_item called on its own *)

Words ==
    { <<"N","e","t">>, <<"R","e","v","e","n","u","e">>, <<"I","N","T","E","R","E","S","T">>,
      <<"E","x","p","e","n","s","e">>, <<"T","a","x">>, <<"D","e","b","i","t">>,
      <<"M","i","s","c">>, <<"P","r","o","f","i","t">>,
      <<"A","m","o","r","t","i","z","a","t","i","o","n">>, <<"I","t","e","m">> }

\* The words of ws joined by single spaces
RECURSIVE Join(_)
Join(ws) ==
    IF Len(ws) = 1 THEN ws[1]
    ELSE Join(SubSeq(ws, 1, Len(ws) - 1)) \o <<" ">> \o ws[Len(ws)]

Descriptions == { Join(ws) : ws \in UNION { [1..m -> Words] : m \in 1..MaxWords } }

InitClassify ==
    /\ disk = <<>>
    /\ FirstRun
    /\ description \in Descriptions
    /\ category = ""

Classify ==
    /\ category = ""
    /\ category' = classify_line_item(description)
    /\ UNCHANGED <<disk, uploaded_file, df_data, selected_category, categories,
                   df_filtered, dashboard, metrics, kpi_margin, demo_button,
                   reset_button, rerun, ran_upload, load_result, error_shown,
                   description>>

NextClassify == Classify

SpecClassify == InitClassify /\ [][NextClassify]_vars


-----------------------------------------------------------------------------
(* Properties *)

NetRevenueText == <<"N","e","t"," ","R","e","v","e","n","u","e">>
InterestExpenseText == <<"I","n","t","e","r","e","s","t"," ","E","x","p","e","n","s","e">>

GroupOrder == <<"Revenue", "Expenses", "Profit/Loss", "Tax & Interest", "Depreciation">>
GroupWords == <<RevenueWords, ExpensesWords, ProfitLossWords, TaxInterestWords,
                DepreciationWords>>
CategoryNames == Range(GroupOrder) \cup {"Other"}

\* The groups one of whose keywords occurs in d, case-insensitively
MatchingGroups(d) == { i \in 1..Len(GroupOrder) : AnyWordIn(GroupWords[i], lower(d)) }

\* C1: classify_line_item is total and first-match-wins: the result is the first
\* group, in the order Revenue, Expenses, Profit/Loss, Tax & Interest,
\* Depreciation, one of whose keywords is a case-insensitive substring of the
\* description, and Other when no group matches; "Net Revenue" is Revenue.
C1_FirstMatchWins ==
    category # "" =>
      LET hits == MatchingGroups(description)
      IN /\ category \in CategoryNames
         /\ category = IF hits = {} THEN "Other"
                       ELSE GroupOrder[CHOOSE i \in hits : \A j \in hits : i <= j]
         /\ (description = NetRevenueText => category = "Revenue")

\* "Net Revenue", which holds a Revenue and a Profit/Loss keyword, was classified
C1_Witness ==
    /\ description = NetRevenueText
    /\ category = "Revenue"
    /\ Cardinality(MatchingGroups(description)) > 1

\* The items of the dataset the last upload run scanned
ScannedItems == Range(load_result.rows)

\* C2: a scanned row whose description is "Interest Expense" is classified
\* Tax & Interest.
C2_InterestExpenseIsTaxInterest ==
    ran_upload =>
      \A it \in ScannedItems :
        it.Description = InterestExpenseText => it.Category = "Tax & Interest"

\* C3 as stated: the headline metrics are the formulas applied to exactly the
\* items that pass the current category filter.
C3_MetricsFollowFilter ==
    dashboard => metrics = KeyMetrics(df_filtered.rows)

\* C3 amended: the headline metrics are the formulas applied to the whole session
\* dataset whatever the category filter is; the filter only selects the rows of
\* df_filtered.
C3_MetricsUseWholeDataset ==
    dashboard =>
      /\ metrics = KeyMetrics(df_data.rows)
      /\ selected_category \in Range(categories)
      /\ df_filtered.rows = IF selected_category = "All" THEN df_data.rows
                            ELSE CategoryRows(df_data.rows, selected_category)

\* A filter is selected under which the formulas give other numbers than shown
C3_Witness ==
    /\ dashboard
    /\ selected_category # "All"
    /\ metrics # KeyMetrics(df_filtered.rows)

\* The two places the margin is shown
ShownMargins == {metrics.profit_margin, kpi_margin}

\* C4 as stated: the margin is netIncome / totalRevenue * 100 whenever
\* totalRevenue is non-zero, 0 when it is 0, and nothing is divided by zero.
C4_MarginWheneverRevenueNonZero ==
    dashboard =>
      \A m \in ShownMargins :
        /\ m.k # "zerodiv"
        /\ IF metrics.total_revenue = Fin(0) THEN m = Ratio(0, 1)
           ELSE m = fdiv100(metrics.net_income, metrics.total_revenue)

\* C4 amended: the margin is netIncome / totalRevenue * 100 when totalRevenue > 0
\* and 0 otherwise (zero, negative or NaN revenue), in both places; nothing is
\* divided by zero.
C4_MarginWhenRevenuePositive ==
    dashboard =>
      \A m \in ShownMargins :
        /\ m.k # "zerodiv"
        /\ IF fgt0(metrics.total_revenue)
           THEN m = fdiv100(metrics.net_income, metrics.total_revenue)
           ELSE m = Ratio(0, 1)

\* A negative revenue with a non-zero net income is shown with margin 0
C4_Witness ==
    /\ dashboard
    /\ metrics.total_revenue.k = "fin" /\ metrics.total_revenue.n < 0
    /\ metrics.net_income # Fin(0)
    /\ \A m \in ShownMargins : m = Ratio(0, 1)

\* The inclusion rule of the scan, row by row
RowIncluded(row) ==
    /\ Len(row) >= ValueColumn
    /\ notna(row[1])
    /\ notna(row[ValueColumn])
    /\ Len(strip(str(row[1]))) > MinDescLen
    /\ strip(str(row[1])) \notin HeaderStrings
    /\ ~isdigit(strip(str(row[1])))
    /\ float(row[ValueColumn]).ok

\* C5 as stated: no item with Value == 0 appears in a scanned dataset.
C5_ZeroValuesExcluded ==
    ran_upload => \A it \in ScannedItems : it.Value # Fin(0)

\* C5 amended: a zero value is no reason for exclusion: every row that passes the
\* inclusion rule and whose value cell parses to exactly zero yields an item
\* with Value == 0.
C5_ZeroValuesKept ==
    (ran_upload /\ uploaded_file.kind = "grid") =>
      \A i \in 1..Len(uploaded_file.rows) :
        LET row == uploaded_file.rows[i]
        IN (RowIncluded(row) /\ float(row[ValueColumn]).v = Fin(0)) =>
             \E it \in ScannedItems :
               it.Description = strip(str(row[1])) /\ it.Value = Fin(0)

\* A scanned dataset holds an item with Value == 0
C5_Witness ==
    /\ ran_upload
    /\ \E it \in ScannedItems : it.Value = Fin(0)

\* C6: every scanned item has a non-empty trimmed description, a finite value
\* and one of the six categories.
C6_ItemsWellFormed ==
    ran_upload =>
      \A it \in ScannedItems :
        /\ it.Description # <<>>
        /\ it.Description = strip(it.Description)
        /\ IsFinite(it.Value)
        /\ it.Category \in CategoryNames

\* The rows of the uploaded sheet that pass the inclusion rule, top to bottom
IncludedRows == SelectSeq(uploaded_file.rows, RowIncluded)

\* C7 as stated: what load_data_from_upload returns for an unreadable source
\* differs from what it returns for any readable source with zero valid rows.
C7_UnreadableDistinguishable ==
    (ran_upload /\ uploaded_file.kind = "unreadable") =>
      \A g \in SessionGrids :
        SelectSeq(g, RowIncluded) = <<>> =>
          load_data_from_upload(Grid(g)).ret # load_result

\* C7 amended: both outcomes return None, and None is returned in no other
\* case; the unreadable source alone is reported through st.error; main falls
\* back to the demonstration dataset in both.
C7_BothReturnNone ==
    ran_upload =>
      /\ load_result = None <=>
           (uploaded_file.kind = "unreadable" \/ IncludedRows = <<>>)
      /\ error_shown <=> uploaded_file.kind = "unreadable"
      /\ (load_result = None /\ ~rerun) => df_data = create_sample_data

\* A readable sheet with rows, none of them valid, was loaded: None, no error
C7_Witness ==
    /\ ran_upload
    /\ uploaded_file.kind = "grid"
    /\ uploaded_file.rows # <<>>
    /\ load_result = None
    /\ ~error_shown

\* The dataset an upload run is to leave in the session
UploadOutcome ==
    IF uploaded_file.kind = "grid" /\ ScanRows(uploaded_file.rows, 1, <<>>) # <<>>
    THEN DataFrame(ScanRows(uploaded_file.rows, 1, <<>>))
    ELSE create_sample_data

\* C8 as stated: every run that processes an uploaded file ends with the session
\* dataset being the complete non-empty scan result or the demonstration
\* dataset, never None or empty.
C8_UploadRunLeavesDataset ==
    ran_upload =>
      /\ ~df_data.isNone
      /\ ~empty(df_data)
      /\ df_data = UploadOutcome

\* C8 amended: that holds of every such run in which Reset Dashboard is not
\* clicked; a run in which it is clicked ends in st.rerun() with the session
\* dataset None, and the rerun, which processes the still uploaded file again,
\* ends with the scan result or the demonstration dataset.
C8_UploadRunUnlessReset ==
    ran_upload =>
      IF rerun THEN df_data = None /\ ~dashboard
      ELSE /\ ~df_data.isNone
           /\ ~empty(df_data)
           /\ df_data = UploadOutcome
           /\ dashboard

\* An unreadable upload was answered with the demonstration dataset
C8_Witness ==
    /\ ran_upload
    /\ ~rerun
    /\ uploaded_file.kind = "unreadable"
    /\ df_data = create_sample_data
    /\ dashboard

\* C9: the scan output is the subsequence, in row order, of the rows that pass
\* the inclusion rule, each with its trimmed description and parsed value; a
\* row that fails a check is skipped and nothing else changes.
C9_ScanIsOrderedFilter ==
    (ran_upload /\ uploaded_file.kind = "grid") =>
      /\ Len(load_result.rows) = Len(IncludedRows)
      /\ \A i \in 1..Len(IncludedRows) :
           /\ load_result.rows[i].Description = strip(str(IncludedRows[i][1]))
           /\ load_result.rows[i].Value = float(IncludedRows[i][ValueColumn]).v
      /\ load_result.isNone <=> IncludedRows = <<>>

\* A sheet whose first row is skipped and whose second row is taken
C9_Witness ==
    /\ ran_upload
    /\ Len(uploaded_file.rows) >= 2
    /\ ~RowIncluded(uploaded_file.rows[1])
    /\ RowIncluded(uploaded_file.rows[2])
    /\ Len(load_result.rows) = 1

\* The dataset with the Value of every Expenses item negated
NegateExpenses(rows) ==
    [i \in 1..Len(rows) |->
       IF rows[i].Category = "Expenses"
       THEN [rows[i] EXCEPT !.Value = fneg(rows[i].Value)]
       ELSE rows[i]]

\* x >= 0 (False for NaN)
NonNegative(x) == x.k = "pinf" \/ (x.k = "fin" /\ x.n >= 0)

\* C10: totalExpenses is a non-negative magnitude, netIncome is
\* totalRevenue - totalExpenses, and negating the Value of every Expenses item
\* leaves the metrics unchanged.
C10_ExpenseMagnitude ==
    dashboard =>
      /\ NonNegative(metrics.total_expenses)
      /\ metrics.net_income = fsub(metrics.total_revenue, metrics.total_expenses)
      /\ KeyMetrics(NegateExpenses(df_data.rows)) = metrics

\* Python's == on two floats: NaN equals nothing, itself included
feq(x, y) == x.k # "nan" /\ y.k # "nan" /\ x = y

\* C11: Abs_Value == abs(Value) for every item of every dataset the session
\* holds, scanned or demonstration, and the rows the dashboard works on are
\* items of that dataset, unchanged.
C11_AbsValueIsAbs ==
    /\ \A it \in Range(df_data.rows) : feq(it.Abs_Value, fabs(it.Value))
    /\ dashboard => \A it \in Range(df_filtered.rows) : it \in Range(df_data.rows)

\* C12: category is a function of the description in every dataset the session
\* holds: each item, scanned or of the demonstration dataset, carries the
\* category classify_line_item assigns to its description.
C12_CategoryIsClassification ==
    \A it \in Range(df_data.rows) : it.Category = classify_line_item(it.Description)

=============================================================================
